---- MODULE Spec2Model ----
(***************************************************************************)
(* Model of the volume centering and cropping utilities of                 *)
(* cdiutils/utils.py: center, _center_at_com,                              *)
(* shape_for_safe_centered_cropping, symmetric_pad, crop_at_center and     *)
(* PeakCenteringHandler (get_masked_data, get_position, chain_centering).  *)
(*                                                                         *)
(* A 3D array is a record [shape |-> <<s0, s1, s2>>, val |-> f] where f    *)
(* maps every index triple <<x, y, z>> (0-based, as in numpy) to the value *)
(* of the voxel.  Voxel values are small non-negative integers; centres of *)
(* mass are exact rationals (numerator, denominator).                      *)
(***************************************************************************)
EXTENDS Integers, Sequences, FiniteSets, TLC

VARIABLES
    pc,            \* position of the running call
    data,          \* the volume the call works on
    output_shape,  \* chain_centering: requested crop shape; safe cropping: the shape returned
    masked_data,   \* chain_centering: [ma |-> is a MaskedArray, mask |-> mask]
    method,        \* chain_centering: the method of the last loop iteration
    n_methods,     \* chain_centering: number of loop iterations done
    position,      \* chain_centering: the position (voxels); safe cropping: in 1/PosDen voxel
    data_shape,    \* shape_for_safe_centered_cropping / crop / pad: a shape
    final_shape,   \* crop_at_center / symmetric_pad / safe cropping
    arg,           \* _center_at_com: the argument of the call; crop_at_center: the crop
    n_shifts,      \* _center_at_com: circular shifts done by the first and second call
    n_calls,       \* _center_at_com: number of top-level calls made
    result,        \* what the call returned or raised
    fitted_counts, \* find_isosurface: the density estimate at the sample points
    max_index,     \* find_isosurface: index of the peak of fitted_counts
    right_HM_index, \* find_isosurface: index taken for the right half maximum
    left_HM_index  \* find_isosurface: its mirror image about the peak

vars == <<pc, data, output_shape, masked_data, method, n_methods,
          position, data_shape, final_shape, arg, n_shifts, n_calls, result,
          fitted_counts, max_index, right_HM_index, left_HM_index>>

----------------------------------------------------------------------------
(* Bounds of the model *)

\* largest voxel value
MaxVal == 2
\* largest component of output_shape and of final_shape
MaxOut == 3
\* longest method chain given to chain_centering
MaxMethods == 2
\* longest axis of the volumes given to center and _center_at_com
MaxDim == 3
\* sub-voxel positions are multiples of 1/PosDen
PosDen == 4
\* the count of circular shifts of one _center_at_com call saturates here
MaxShifts == 4
\* number of sample points of the density curve (np.linspace(0, 1, 1000) in the code)
MaxSamples == 5
\* largest value of the sampled density, in arbitrary units
MaxCount == 2

----------------------------------------------------------------------------
(* Integer helpers *)

Min2(a, b) == IF a <= b THEN a ELSE b

Max2(a, b) == IF a >= b THEN a ELSE b

\* np.rint and Python's round on a float n/d (d > 0): round half to even.
RoundHalfAwayFromZero(n, d) ==
    IF n >= 0 THEN (2 * n + d) \div (2 * d) ELSE -((2 * (-n) + d) \div (2 * d))

RoundHalfEven(n, d) ==
    LET q == n \div d
        r == n - q * d
    IN  IF 2 * r < d THEN q
        ELSE IF 2 * r > d THEN q + 1
        ELSE IF q % 2 = 0 THEN q ELSE q + 1

----------------------------------------------------------------------------
(* numpy arrays *)

Axes == 1..3

\* the index triples of an array of the given shape
Idx(shape) == (0..(shape[1] - 1)) \X (0..(shape[2] - 1)) \X (0..(shape[3] - 1))

Size(shape) == shape[1] * shape[2] * shape[3]

\* np.unravel_index(flat, shape), C order: the last axis runs fastest
Unravel(flat, shape) ==
    << flat \div (shape[2] * shape[3]), (flat \div shape[3]) % shape[2], flat % shape[3] >>

\* the indices a Python slice start:stop selects on an axis of length n
PySlice(start, stop, n) ==
    LET lo == IF start < 0 THEN Max2(start + n, 0) ELSE Min2(start, n)
        hi == IF stop < 0 THEN Max2(stop + n, 0) ELSE Min2(stop, n)
    IN  lo..(hi - 1)

\* data[lo[1]:hi[1], lo[2]:hi[2], lo[3]:hi[3]]
SliceArray(a, lo, hi) ==
    LET sl == [i \in Axes |-> PySlice(lo[i], hi[i], a.shape[i])]
        first == [i \in Axes |-> IF sl[i] = {} THEN 0 ELSE CHOOSE k \in sl[i] : \A m \in sl[i] : k <= m]
        shp == << Cardinality(sl[1]), Cardinality(sl[2]), Cardinality(sl[3]) >>
    IN  [shape |-> shp,
         val |-> [j \in Idx(shp) |-> a.val[<< first[1] + j[1], first[2] + j[2], first[3] + j[3] >>]]]

RECURSIVE SumFlat(_, _, _, _)
\* sum over the voxels of flat index 0..k of w[p], times the coordinate of p
\* on the given axis (times 1 when axis = 0)
SumFlat(w, shape, axis, k) ==
    IF k < 0 THEN 0
    ELSE LET p == Unravel(k, shape)
         IN  (IF axis = 0 THEN w[p] ELSE w[p] * p[axis]) + SumFlat(w, shape, axis, k - 1)

Mass(w, shape) == SumFlat(w, shape, 0, Size(shape) - 1)

Moment(w, shape, axis) == SumFlat(w, shape, axis, Size(shape) - 1)

\* ndarray.argmax(): flat index of the first occurrence of the maximum
ArgMax(val, shape) ==
    LET flat == [k \in 0..(Size(shape) - 1) |-> val[Unravel(k, shape)]]
        top == CHOOSE v \in { flat[k] : k \in DOMAIN flat } :
                   \A k \in DOMAIN flat : flat[k] <= v
    IN  CHOOSE k \in DOMAIN flat :
            flat[k] = top /\ \A m \in 0..(k - 1) : flat[m] # top

find_max_pos(val, shape) == Unravel(ArgMax(val, shape), shape)

\* The value MaskedArray.argmax puts in the masked voxels: the smallest value
\* of the element type.  For unsigned counts it is 0, a value voxels do take;
\* for signed integers and floats it is below every voxel value (-1 here).
maximum_fill_value == { 0, -1 }

----------------------------------------------------------------------------
(* PeakCenteringHandler *)

NoArray == [shape |-> << 0, 0, 0 >>, val |-> [j \in {} |-> 0]]

Returned(array, pos) == [kind |-> "returned", error |-> "", array |-> array, position |-> pos]

Raised(error) == [kind |-> "raised", error |-> error, array |-> NoArray, position |-> << 0, 0, 0 >>]

NoResult == [kind |-> "none", error |-> "", array |-> NoArray, position |-> << 0, 0, 0 >>]

\* chain_centering: how much to keep before and after the position
plus_one_always(out) == [i \in Axes |-> 1]

plus_one(out) == [i \in Axes |-> IF out[i] % 2 = 0 THEN 0 ELSE 1]

crop(out) == [i \in Axes |-> << out[i] \div 2, out[i] \div 2 + plus_one(out)[i] >>]

\* get_masked_data: the mask is 1 everywhere but in the box around where
get_masked_data(a, where, crp) ==
    LET slices == [i \in Axes |->
                     PySlice(Max2(where[i] - crp[i][1], 0),
                             Min2(where[i] + crp[i][2], a.shape[i]),
                             a.shape[i])]
    IN  [ma |-> TRUE,
         mask |-> [p \in Idx(a.shape) |->
                     IF \A i \in Axes : p[i] \in slices[i] THEN 0 ELSE 1]]

\* MaskedArray.filled(fill_value)
filled(a, md, fill) ==
    [p \in Idx(a.shape) |-> IF md.ma /\ md.mask[p] = 1 THEN fill ELSE a.val[p]]

\* The weights np.average may use in nan_center_of_mass.  On a plain ndarray
\* they are the voxel values.  On a MaskedArray, np.where(...) lists every
\* voxel and the weights data[non_nan_coord] carry the mask, which np.average
\* drops or keeps depending on the numpy release: both are outcomes.
com_weights(a, md) ==
    IF md.ma
    THEN { a.val, [p \in Idx(a.shape) |-> IF md.mask[p] = 1 THEN 0 ELSE a.val[p]] }
    ELSE { a.val }

\* nan_center_of_mass(data, return_int=True) with the given weights
nan_center_of_mass(a, md, w) ==
    LET m == Mass(w, a.shape)
    IN  IF m = 0
        THEN Raised("ZeroDivisionError")
        ELSE Returned(NoArray, [i \in Axes |-> RoundHalfEven(Moment(w, a.shape, i), m)])

\* get_position: the outcomes of one call
get_position(mth, a, md) ==
    IF mth.kind = "max"
    THEN { Returned(NoArray, find_max_pos(filled(a, md, fill), a.shape)) :
             fill \in maximum_fill_value }
    ELSE IF mth.kind = "com"
    THEN { nan_center_of_mass(a, md, w) : w \in com_weights(a, md) }
    ELSE IF mth.kind = "coord"
    THEN { Returned(NoArray, mth.at) }
    ELSE { Raised("ValueError") }

\* the voxels chain_centering finds unmasked after the loop
indexes_of_interest(a, md) == { p \in Idx(a.shape) : md.mask[p] = 0 }

MinOf(S) == CHOOSE k \in S : \A m \in S : k <= m

MaxOf(S) == CHOOSE k \in S : \A m \in S : k >= m

\* chain_centering, after the loop: the slice of data over the bounding box
\* of the unmasked voxels
bounding_box_crop(a, md, pos) ==
    LET ioi == indexes_of_interest(a, md)
        lo == [i \in Axes |-> MinOf({ p[i] : p \in ioi })]
        hi == [i \in Axes |-> MaxOf({ p[i] : p \in ioi }) + 1]
    IN  IF ioi = {} THEN Raised("ValueError")
        ELSE Returned(SliceArray(a, lo, hi), pos)

(* inputs of chain_centering *)

TwoPeaks(shape, p1, v1, p2, v2) ==
    [shape |-> shape,
     val |-> [p \in Idx(shape) |-> IF p = p1 THEN v1 ELSE IF p = p2 THEN v2 ELSE 0]]

LastIdx(shape) == << shape[1] - 1, shape[2] - 1, shape[3] - 1 >>

ChainShape == << 3, 3, 2 >>

ChainVolumes ==
    { TwoPeaks(ChainShape, p1, v1, LastIdx(ChainShape), v2) :
        p1 \in Idx(ChainShape), v1 \in 1..MaxVal, v2 \in { 0, MaxVal } }

OutShapes == { << a, b, a >> : a \in 1..MaxOut, b \in 1..MaxOut }

NoMethod == [kind |-> "none", at |-> << 0, 0, 0 >>]

\* "max", "com", a tuple of int inside or outside the volume, and a string
\* that is neither
Methods ==
    { [kind |-> k, at |-> << 0, 0, 0 >>] : k \in {"max", "com", "min"} }
    \cup { [kind |-> "coord", at |-> << a, 1, 1 >>] :
             a \in { -MaxOut, -((MaxOut + 1) \div 2), 1, ChainShape[1] + 1 } }

InitChain ==
    /\ pc = "chain"
    /\ data \in ChainVolumes
    /\ output_shape \in OutShapes
    /\ masked_data = [ma |-> FALSE, mask |-> [p \in Idx(data.shape) |-> 0]]
    /\ method = NoMethod
    /\ n_methods = 0
    /\ position = << 0, 0, 0 >>
    /\ data_shape = << 0, 0, 0 >>
    /\ final_shape = << 0, 0, 0 >>
    /\ arg = NoArray
    /\ n_shifts = << 0, 0 >>
    /\ n_calls = 0
    /\ result = NoResult
    /\ fitted_counts = << >>
    /\ max_index = 0
    /\ right_HM_index = 0
    /\ left_HM_index = 0

\* one iteration of `for method in methods`
ChainMethod ==
    /\ pc = "chain"
    /\ n_methods < MaxMethods
    /\ \E mth \in Methods :
         \E got \in get_position(mth, data, masked_data) :
            /\ method' = mth
            /\ n_methods' = n_methods + 1
            /\ IF got.kind = "raised"
               THEN /\ pc' = "raised"
                    /\ result' = got
                    /\ UNCHANGED << position, masked_data >>
               ELSE /\ position' = got.position
                    /\ masked_data' = get_masked_data(data, got.position, crop(output_shape))
                    /\ UNCHANGED << pc, result >>
    /\ UNCHANGED << fitted_counts, max_index, right_HM_index, left_HM_index >>
    /\ UNCHANGED << data, output_shape, data_shape, final_shape, arg, n_shifts, n_calls >>

\* the end of the loop: the bounding box, the slice and the return.  With no
\* method, masked_data is still the ndarray data, which has no attribute mask.
ChainFinish ==
    /\ pc = "chain"
    /\ LET out == IF ~masked_data.ma THEN Raised("AttributeError")
                  ELSE bounding_box_crop(data, masked_data, position)
       IN  /\ result' = out
           /\ pc' = out.kind
    /\ UNCHANGED << fitted_counts, max_index, right_HM_index, left_HM_index >>
    /\ UNCHANGED << data, output_shape, masked_data, method, n_methods, position,
                    data_shape, final_shape, arg, n_shifts, n_calls >>

NextChain == ChainMethod \/ ChainFinish

SpecChain == InitChain /\ [][NextChain]_vars

----------------------------------------------------------------------------
(* center and _center_at_com *)

\* np.roll(a, k, axis)
np_roll(a, k, axis) ==
    [shape |-> a.shape,
     val |-> [p \in Idx(a.shape) |->
                a.val[[p EXCEPT ![axis] = (p[axis] - k) % a.shape[axis]]]]]

\* A reference position: the coordinate on axis i is num[i] / den, den > 0.
\* find_max_pos gives integers; center_of_mass gives moment / mass.
max_reference(a) == [num |-> find_max_pos(a.val, a.shape), den |-> 1]

center_of_mass(a) ==
    [num |-> << Moment(a.val, a.shape, 1), Moment(a.val, a.shape, 2), Moment(a.val, a.shape, 3) >>,
     den |-> Mass(a.val, a.shape)]

\* int(np.rint(shape[i] / 2 - reference[i]))
shift_to_center_away(shape, ref) ==
    << RoundHalfAwayFromZero(shape[1] * ref.den - 2 * ref.num[1], 2 * ref.den),
       RoundHalfAwayFromZero(shape[2] * ref.den - 2 * ref.num[2], 2 * ref.den),
       RoundHalfAwayFromZero(shape[3] * ref.den - 2 * ref.num[3], 2 * ref.den) >>

shift_to_center(shape, ref) ==
    << RoundHalfEven(shape[1] * ref.den - 2 * ref.num[1], 2 * ref.den),
       RoundHalfEven(shape[2] * ref.den - 2 * ref.num[2], 2 * ref.den),
       RoundHalfEven(shape[3] * ref.den - 2 * ref.num[3], 2 * ref.den) >>

\* center(data, where): three circular shifts, one per axis
center(a, ref) ==
    LET k == shift_to_center(a.shape, ref)
    IN  np_roll(np_roll(np_roll(a, k[1], 1), k[2], 2), k[3], 3)

(* inputs of center and _center_at_com *)

CenterShapes == { << a, b, 2 >> : a, b \in 2..MaxDim }

ThreePeaks(shape, p1, v1, v0, v2) ==
    [shape |-> shape,
     val |-> [p \in Idx(shape) |->
                IF p = p1 THEN v1
                ELSE IF p = << 0, 0, 0 >> THEN v0
                ELSE IF p = LastIdx(shape) THEN v2 ELSE 0]]

CenterVolumes ==
    UNION { { ThreePeaks(shape, p1, v1, v0, v2) :
                p1 \in Idx(shape), v1 \in 0..MaxVal, v0 \in {0, 1}, v2 \in 0..MaxVal } :
            shape \in CenterShapes }

InitCenter ==
    /\ pc = "idle"
    /\ data = NoArray
    /\ arg = NoArray
    /\ n_shifts = << 0, 0 >>
    /\ n_calls = 0
    /\ result = NoResult
    /\ fitted_counts = << >>
    /\ max_index = 0
    /\ right_HM_index = 0
    /\ left_HM_index = 0
    /\ output_shape = << 0, 0, 0 >>
    /\ masked_data = [ma |-> FALSE, mask |-> << >>]
    /\ method = NoMethod
    /\ n_methods = 0
    /\ position = << 0, 0, 0 >>
    /\ data_shape = << 0, 0, 0 >>
    /\ final_shape = << 0, 0, 0 >>

\* center(data, where="max") on a volume
CenterMax ==
    /\ pc = "idle"
    /\ \E a \in CenterVolumes :
         /\ data' = a
         /\ arg' = a
         /\ result' = Returned(center(a, max_reference(a)), find_max_pos(a.val, a.shape))
    /\ pc' = "centered"
    /\ UNCHANGED << fitted_counts, max_index, right_HM_index, left_HM_index >>
    /\ UNCHANGED << output_shape, masked_data, method, n_methods, position,
                    data_shape, final_shape, n_shifts, n_calls >>

\* _center_at_com(data) is called on a volume
CenterAtComCall ==
    /\ pc = "idle"
    /\ \E a \in CenterVolumes :
         /\ data' = a
         /\ arg' = a
    /\ pc' = "com"
    /\ n_calls' = 1
    /\ UNCHANGED << fitted_counts, max_index, right_HM_index, left_HM_index >>
    /\ UNCHANGED << output_shape, masked_data, method, n_methods, position,
                    data_shape, final_shape, n_shifts, result >>

\* _center_at_com without the recursion: shift once and return without looking again.
CenterAtComSinglePass ==
    /\ pc = "com"
    /\ \E com \in { center_of_mass(data) } :
           IF com.den = 0
           THEN /\ pc' = "raised"
                /\ result' = Raised("ValueError")
                /\ UNCHANGED << data, n_shifts >>
           ELSE IF shift_to_center(data.shape, com) = << 0, 0, 0 >>
           THEN /\ pc' = "com_returned"
                /\ result' = Returned(data, << 0, 0, 0 >>)
                /\ UNCHANGED << data, n_shifts >>
           ELSE /\ pc' = "com_returned"
                /\ data' = center(data, com)
                /\ result' = Returned(center(data, com), << 0, 0, 0 >>)
                /\ n_shifts' = [n_shifts EXCEPT ![n_calls] = Min2(@ + 1, MaxShifts)]
    /\ UNCHANGED << fitted_counts, max_index, right_HM_index, left_HM_index >>
    /\ UNCHANGED << output_shape, masked_data, method, n_methods, position,
                    data_shape, final_shape, arg, n_calls >>

\* One level of the recursion of _center_at_com: return data when the centre
\* of mass rounds to the centre, else shift and look again.  With no mass the
\* centre of mass is NaN, which int() refuses.
CenterAtComStep ==
    /\ pc = "com"
    /\ \E com \in { center_of_mass(data) } :
           IF com.den = 0
           THEN /\ pc' = "raised"
                /\ result' = Raised("ValueError")
                /\ UNCHANGED << data, n_shifts >>
           ELSE IF shift_to_center(data.shape, com) = << 0, 0, 0 >>
           THEN /\ pc' = "com_returned"
                /\ result' = Returned(data, << 0, 0, 0 >>)
                /\ UNCHANGED << data, n_shifts >>
           ELSE /\ data' = center(data, com)
                /\ n_shifts' = [n_shifts EXCEPT ![n_calls] = Min2(@ + 1, MaxShifts)]
                /\ UNCHANGED << pc, result >>
    /\ UNCHANGED << fitted_counts, max_index, right_HM_index, left_HM_index >>
    /\ UNCHANGED << output_shape, masked_data, method, n_methods, position,
                    data_shape, final_shape, arg, n_calls >>

\* _center_at_com applied to the volume it returned
CenterAtComAgain ==
    /\ pc = "com_returned"
    /\ n_calls = 1
    /\ pc' = "com"
    /\ data' = result.array
    /\ arg' = result.array
    /\ n_calls' = 2
    /\ result' = NoResult
    /\ UNCHANGED << fitted_counts, max_index, right_HM_index, left_HM_index >>
    /\ UNCHANGED << output_shape, masked_data, method, n_methods, position,
                    data_shape, final_shape, n_shifts >>

NextCenter == CenterMax \/ CenterAtComCall \/ CenterAtComStep \/ CenterAtComAgain

SpecCenter == InitCenter /\ [][NextCenter]_vars

\* _center_at_com recurses until it returns: each level runs to its end
SpecCenterFair == SpecCenter /\ WF_vars(CenterAtComStep)


----------------------------------------------------------------------------
(* Properties of center and _center_at_com *)

UniqueMax(a) ==
    \E p \in Idx(a.shape) : \A q \in Idx(a.shape) \ {p} : a.val[q] < a.val[p]

\* C3: center(data, where="max") of a volume with a unique maximum returns a
\* volume whose maximum is at index round(shape[i] / 2) on every axis.
C3_MaxAtRoundHalfShape ==
    (pc = "centered" /\ UniqueMax(arg)) =>
        find_max_pos(result.array.val, result.array.shape)
            = [i \in Axes |-> RoundHalfEven(arg.shape[i], 2)]

\* C6: the volume _center_at_com returns has a centre of mass that rounds to
\* the centre on every axis, and _center_at_com applied to it shifts nothing
\* and returns it unchanged.
C6_CenterAtComIdempotent ==
    (pc = "com_returned") =>
        /\ shift_to_center(result.array.shape, center_of_mass(result.array)) = << 0, 0, 0 >>
        /\ n_calls = 2 => (n_shifts[2] = 0 /\ result.array = arg)

\* the second application has returned, on the volume the first one returned
\* after shifting twice
C6_Witness ==
    /\ pc = "com_returned"
    /\ n_calls = 2
    /\ n_shifts = << 2, 0 >>
    /\ result.array = arg

----------------------------------------------------------------------------
(* Properties of chain_centering *)

\* the box [p - out//2, p + out//2 + out mod 2) lies inside the volume
BoxInside(p, out, shape) ==
    \A i \in Axes :
        /\ p[i] - out[i] \div 2 >= 0
        /\ p[i] + out[i] \div 2 + (out[i] % 2) <= shape[i]

\* data over the box of shape out around p
BoxOf(a, p, out) ==
    [shape |-> out,
     val |-> [j \in Idx(out) |->
                a.val[<< p[1] - out[1] \div 2 + j[1],
                         p[2] - out[2] \div 2 + j[2],
                         p[3] - out[3] \div 2 + j[3] >>]]]

\* the call is over and its only method found a position
SingleMethodDone ==
    /\ pc \in {"returned", "raised"}
    /\ n_methods = 1
    /\ masked_data.ma

\* C1: a chain of one method whose position has its box of shape
\* output_shape inside the volume returns the data over that box, of shape
\* output_shape, and the position: the first maximum for "max", the given
\* coordinate for a tuple.
C1_SingleMethodReturnsBox ==
    (SingleMethodDone /\ BoxInside(position, output_shape, data.shape)) =>
        /\ result.kind = "returned"
        /\ result.array = BoxOf(data, position, output_shape)
        /\ result.array.shape = output_shape
        /\ result.position = position
        /\ method.kind = "max" =>
             \A q \in Idx(data.shape) : data.val[q] <= data.val[result.position]
        /\ method.kind = "coord" => result.position = method.at

\* a single maximum away from the faces, cropped with an even and an odd width
C1_Witness ==
    /\ SingleMethodDone
    /\ method.kind = "max"
    /\ output_shape = << 2, 3, 2 >>
    /\ BoxInside(position, output_shape, data.shape)
    /\ position = << 1, 1, 1 >>
    /\ result.kind = "returned"
    /\ result.array.shape = << 2, 3, 2 >>

\* the first index of the returned slice on each axis
crop_origin(a, md) ==
    [i \in Axes |-> MinOf({ p[i] : p \in indexes_of_interest(a, md) })]

\* C2: whenever chain_centering returns with a position inside the volume,
\* the voxel at that position is at index output_shape[i] // 2 of the
\* returned array on every axis.
C2_PositionAtHalfOutputShape ==
    (pc = "returned" /\ result.position \in Idx(data.shape)) =>
        \A i \in Axes :
            result.position[i] - crop_origin(data, masked_data)[i] = output_shape[i] \div 2

\* C7: with no method at all chain_centering fails with the error that names
\* the empty chain, and returns nothing.
C7_EmptyChainRaisesEmptyMethodChain ==
    (pc \in {"returned", "raised"} /\ n_methods = 0) =>
        /\ result.kind = "raised"
        /\ result.error = "EmptyMethodChain"

\* the box of the position lies entirely beyond a face of the volume
BoxOutside(p, out, shape) ==
    \E i \in Axes :
        \/ p[i] - crop(out)[i][1] >= shape[i]
        \/ p[i] + crop(out)[i][2] <= 0

\* C8: when the box of the last position lies entirely outside the volume on
\* some axis, chain_centering fails instead of returning a crop.
C8_BoxOutsideRaises ==
    (/\ pc \in {"returned", "raised"}
     /\ masked_data.ma
     /\ BoxOutside(position, output_shape, data.shape)) =>
        result.kind = "raised"

\* C10: a "max" or "com" that follows another method finds its position
\* inside the box that method left unmasked, when that box is not empty.
C10_PositionInsidePreviousBox ==
    [][ (/\ pc = "chain"
         /\ pc' = "chain"
         /\ masked_data.ma
         /\ n_methods' = n_methods + 1
         /\ method'.kind \in {"max", "com"}
         /\ indexes_of_interest(data, masked_data) # {})
        => position' \in indexes_of_interest(data, masked_data) ]_vars

----------------------------------------------------------------------------
(* crop_at_center, symmetric_pad, shape_for_safe_centered_cropping *)

\* np.pad(a, ((before[1], after[1]), ...), mode="constant", constant_values=values);
\* numpy refuses a negative pad width
np_pad(a, before, after, values) ==
    IF \E i \in Axes : before[i] < 0 \/ after[i] < 0 THEN Raised("ValueError")
    ELSE LET shp == << before[1] + a.shape[1] + after[1],
                       before[2] + a.shape[2] + after[2],
                       before[3] + a.shape[3] + after[3] >>
             inside(j) == \A i \in Axes : before[i] <= j[i] /\ j[i] < before[i] + a.shape[i]
         IN  Returned([shape |-> shp,
                       val |-> [j \in Idx(shp) |->
                                  IF inside(j)
                                  THEN a.val[<< j[1] - before[1], j[2] - before[2], j[3] - before[3] >>]
                                  ELSE values]],
                      << 0, 0, 0 >>)

\* the pad widths without the extra voxel of an odd difference
pad_width_even(shape, final) ==
    [i \in Axes |-> << (final[i] - shape[i]) \div 2, (final[i] - shape[i]) \div 2 >>]

pad_width(shape, final) ==
    [i \in Axes |-> << (final[i] - shape[i]) \div 2,
                       (final[i] - shape[i]) \div 2 + ((final[i] - shape[i]) % 2) >>]

symmetric_pad(a, final, values) ==
    LET w == pad_width(a.shape, final)
    IN  np_pad(a, [i \in Axes |-> w[i][1]], [i \in Axes |-> w[i][2]], values)

crop_at_center(a, final) ==
    IF ~(\A i \in Axes : final[i] <= a.shape[i]) THEN a
    ELSE LET c == [i \in Axes |-> a.shape[i] \div 2]
             to_crop == [i \in Axes |-> final[i] \div 2]
             odd == [i \in Axes |-> IF final[i] % 2 = 0 THEN 0 ELSE 1]
         IN  SliceArray(a, [i \in Axes |-> c[i] - to_crop[i]],
                           [i \in Axes |-> c[i] + to_crop[i] + odd[i]])

\* no final_shape given
None == << >>

\* the shape without the bound final_shape puts on it
secured_shape_only(shape, pos, final) ==
    [i \in Axes |-> RoundHalfEven(2 * Min2(pos[i], shape[i] * PosDen - pos[i]), PosDen)]

\* position is in units of 1/PosDen voxel: position[i] = pos[i] / PosDen
shape_for_safe_centered_cropping(shape, pos, final) ==
    LET secured_shape ==
            [i \in Axes |-> RoundHalfEven(2 * Min2(pos[i], shape[i] * PosDen - pos[i]), PosDen)]
    IN  IF final = None THEN secured_shape
        ELSE [i \in Axes |-> Min2(secured_shape[i], final[i])]

\* a volume whose voxels all differ: the voxel of flat index k holds k + 1
Labelled(shape) ==
    [shape |-> shape,
     val |-> [p \in Idx(shape) |-> 1 + p[1] * shape[2] * shape[3] + p[2] * shape[3] + p[3]]]

GeomShapes == { << a, b, a >> : a, b \in 1..MaxDim }

FinalShapes == { << a, b, c >> : a, b \in 0..(MaxOut + 1), c \in { 1, MaxOut } }

Positions(shape) ==
    (0..(shape[1] * PosDen - 1)) \X (0..(shape[2] * PosDen - 1)) \X (0..(shape[3] * PosDen - 1))

InitGeom ==
    /\ pc = "idle"
    /\ data = NoArray
    /\ arg = NoArray
    /\ output_shape = << 0, 0, 0 >>
    /\ masked_data = [ma |-> FALSE, mask |-> << >>]
    /\ method = NoMethod
    /\ n_methods = 0
    /\ position = << 0, 0, 0 >>
    /\ data_shape = << 0, 0, 0 >>
    /\ final_shape = None
    /\ n_shifts = << 0, 0 >>
    /\ n_calls = 0
    /\ result = NoResult
    /\ fitted_counts = << >>
    /\ max_index = 0
    /\ right_HM_index = 0
    /\ left_HM_index = 0

\* symmetric_pad(crop_at_center(data, final_shape), data.shape)
CropThenPad ==
    /\ pc = "idle"
    /\ \E shape \in GeomShapes, final \in FinalShapes :
        /\ data' = Labelled(shape)
        /\ final_shape' = final
        /\ arg' = crop_at_center(Labelled(shape), final)
        /\ result' = symmetric_pad(crop_at_center(Labelled(shape), final), shape, 0)
    /\ pc' = "padded"
    /\ UNCHANGED << fitted_counts, max_index, right_HM_index, left_HM_index >>
    /\ UNCHANGED << output_shape, masked_data, method, n_methods, position,
                    data_shape, n_shifts, n_calls >>

\* output_shape = shape_for_safe_centered_cropping(data_shape, position, final_shape)
SafeShape ==
    /\ pc = "idle"
    /\ \E shape \in GeomShapes :
        \E pos \in Positions(shape), final \in { None } \cup OutShapes :
            /\ data_shape' = shape
            /\ position' = pos
            /\ final_shape' = final
            /\ output_shape' = shape_for_safe_centered_cropping(shape, pos, final)
    /\ pc' = "shaped"
    /\ UNCHANGED << fitted_counts, max_index, right_HM_index, left_HM_index >>
    /\ UNCHANGED << data, masked_data, method, n_methods, arg, n_shifts, n_calls, result >>

\* crop_at_center(symmetric_pad(data, final_shape), data.shape); arg holds the
\* padded volume
PadThenCrop ==
    /\ pc = "idle"
    /\ \E shape \in GeomShapes, final \in FinalShapes :
        LET padded == symmetric_pad(Labelled(shape), final, 0)
        IN  /\ data' = Labelled(shape)
            /\ final_shape' = final
            /\ IF padded.kind = "raised"
               THEN /\ arg' = NoArray
                    /\ result' = padded
               ELSE /\ arg' = padded.array
                    /\ result' = Returned(crop_at_center(padded.array, shape), << 0, 0, 0 >>)
    /\ pc' = "cropped"
    /\ UNCHANGED << fitted_counts, max_index, right_HM_index, left_HM_index >>
    /\ UNCHANGED << output_shape, masked_data, method, n_methods, position,
                    data_shape, n_shifts, n_calls >>

NextGeom == CropThenPad \/ SafeShape \/ PadThenCrop

SpecGeom == InitGeom /\ [][NextGeom]_vars

----------------------------------------------------------------------------
(* Properties of crop_at_center, symmetric_pad and shape_for_safe_centered_cropping *)

\* C4: padding the centred crop back to data.shape gives an array of exactly
\* the shape of data, for every final_shape; and when final_shape fits in
\* data.shape on every axis, the centred crop has exactly the shape final_shape.
C4_CropPadRestoresShape ==
    pc = "padded" =>
        /\ result.kind = "returned"
        /\ result.array.shape = data.shape
        /\ (\A i \in Axes : final_shape[i] <= data.shape[i]) => arg.shape = final_shape

\* a crop that removed an odd number of voxels on one axis and an even, nonzero
\* number on another, padded back
C4_Witness ==
    /\ pc = "padded"
    /\ data.shape = << 3, 3, 3 >>
    /\ final_shape = << 2, 1, 1 >>
    /\ arg.shape = << 2, 1, 1 >>
    /\ result.kind = "returned"
    /\ result.array.shape = << 3, 3, 3 >>

\* C5 as stated: every component of the safe shape is even, and exceeds neither
\* data_shape[i] nor, when final_shape is given, final_shape[i].
C5_EvenAndBounded ==
    pc = "shaped" =>
        \A i \in Axes :
            /\ output_shape[i] % 2 = 0
            /\ output_shape[i] <= data_shape[i]
            /\ final_shape # None => output_shape[i] <= final_shape[i]

\* C5 amended: every component of the safe shape is non-negative and exceeds
\* neither data_shape[i] nor, when final_shape is given, final_shape[i]; it is
\* even when position[i] is a whole number of voxels and the component is not
\* final_shape[i] itself.
C5_BoundedEvenWhenIntegerPosition ==
    pc = "shaped" =>
        \A i \in Axes :
            /\ 0 <= output_shape[i]
            /\ output_shape[i] <= data_shape[i]
            /\ final_shape # None => output_shape[i] <= final_shape[i]
            /\ (position[i] % PosDen = 0
                    /\ (final_shape = None \/ output_shape[i] # final_shape[i]))
                => output_shape[i] % 2 = 0

\* a whole-voxel position off the centre, with a final_shape that bounds one
\* axis and not the others
C5_Witness ==
    /\ pc = "shaped"
    /\ data_shape = << 3, 3, 3 >>
    /\ position = << PosDen, 2 * PosDen, PosDen >>
    /\ final_shape = << 1, 3, 1 >>
    /\ output_shape = << 1, 2, 1 >>

\* C11: padding a volume to a final_shape at least as large on every axis and
\* cropping the result at the centre back to the shape of the volume gives
\* the volume back, voxel for voxel.
C11_PadCropRestoresValues ==
    (pc = "cropped" /\ \A i \in Axes : final_shape[i] >= data.shape[i]) =>
        /\ result.kind = "returned"
        /\ result.array = data

----------------------------------------------------------------------------
(* find_isosurface: the half maximum indexes of the density estimate *)

\* x = np.linspace(0, 1, MaxSamples) is strictly increasing, so x >= x[k]
\* holds at the sample indexes i >= k; indexes are 0-based
Samples == 0..(MaxSamples - 1)

Abs(n) == IF n < 0 THEN -n ELSE n

\* np.argmax(f): the first index of the largest value
np_argmax(f) ==
    CHOOSE k \in DOMAIN f :
        /\ \A m \in DOMAIN f : f[m] <= f[k]
        /\ \A m \in DOMAIN f : m < k => f[m] < f[k]

\* np.argmin(f): the first index of the smallest value
np_argmin(f) ==
    CHOOSE k \in DOMAIN f :
        /\ \A m \in DOMAIN f : f[m] >= f[k]
        /\ \A m \in DOMAIN f : m < k => f[m] > f[k]

\* np.where(x >= x[max_index], fitted_counts, 0)
right_gaussian_part(f, peak) == [i \in DOMAIN f |-> IF i >= peak THEN f[i] ELSE 0]

\* np.argmin(np.abs(right_gaussian_part - fitted_counts.max() / 2)), the
\* distances taken in half units: |2 * part - max|
find_right_HM_index(f) ==
    LET peak == np_argmax(f)
        part == right_gaussian_part(f, peak)
    IN  np_argmin([i \in DOMAIN f |-> Abs(2 * part[i] - f[peak])])

\* the sampled densities: not zero everywhere
Curves == { f \in [Samples -> 0..MaxCount] : \E i \in Samples : f[i] > 0 }

InitIso ==
    /\ pc = "idle"
    /\ data = NoArray
    /\ arg = NoArray
    /\ output_shape = << 0, 0, 0 >>
    /\ masked_data = [ma |-> FALSE, mask |-> << >>]
    /\ method = NoMethod
    /\ n_methods = 0
    /\ position = << 0, 0, 0 >>
    /\ data_shape = << 0, 0, 0 >>
    /\ final_shape = None
    /\ n_shifts = << 0, 0 >>
    /\ n_calls = 0
    /\ result = NoResult
    /\ fitted_counts = << >>
    /\ max_index = 0
    /\ right_HM_index = 0
    /\ left_HM_index = 0

\* fitted_counts = kernel(x) and the three indexes
HalfMaxIndexes ==
    /\ pc = "idle"
    /\ \E f \in Curves :
        /\ fitted_counts' = f
        /\ max_index' = np_argmax(f)
        /\ right_HM_index' = find_right_HM_index(f)
        /\ left_HM_index' = np_argmax(f) - (find_right_HM_index(f) - np_argmax(f))
    /\ pc' = "half_max"
    /\ UNCHANGED << data, output_shape, masked_data, method, n_methods, position,
                    data_shape, final_shape, arg, n_shifts, n_calls, result >>

\* fwhm = x[right_HM_index] - x[left_HM_index]: an index from -MaxSamples up
\* to MaxSamples - 1 is accepted (a negative one counts from the end), any
\* other raises IndexError
Fwhm ==
    /\ pc = "half_max"
    /\ LET out == IF left_HM_index \in (-MaxSamples)..(MaxSamples - 1)
                  THEN Returned(NoArray, << 0, 0, 0 >>)
                  ELSE Raised("IndexError")
       IN  /\ result' = out
           /\ pc' = out.kind
    /\ UNCHANGED << data, output_shape, masked_data, method, n_methods, position,
                    data_shape, final_shape, arg, n_shifts, n_calls,
                    fitted_counts, max_index, right_HM_index, left_HM_index >>

NextIso == HalfMaxIndexes \/ Fwhm

SpecIso == InitIso /\ [][NextIso]_vars

\* C12: for every sampled density, the right half maximum index is at or after
\* the peak, and its mirror image about the peak is a sample index between 0
\* and the peak.
C12_HalfMaxIndexesAroundPeak ==
    pc \in { "half_max", "returned", "raised" } =>
        /\ right_HM_index >= max_index
        /\ 0 <= left_HM_index
        /\ left_HM_index <= max_index

====
